---- MODULE Spec2Model ----
(***************************************************************************)
(* A model of the NBA data feed (src/nba/nba_datafeed.py) and analyzer     *)
(* (src/nba/nba_analyzer.py).                                              *)
(*                                                                         *)
(* Text cells are sequences of decimal digits, numbers are integers; the   *)
(* CSV conversions (to_csv, read_csv with and without dtype=str) are       *)
(* modelled by what they do to a cell.  Averages are exact rationals       *)
(* <<numerator, denominator>> in lowest terms.  GAME_DATE is the day       *)
(* ordinal that pd.to_datetime yields.                                     *)
(***************************************************************************)
EXTENDS Integers, Sequences, FiniteSets, TLC

VARIABLES
    avg_in,        \* get_game_averages_df: the table passed in (df)
    avg_kind,      \* get_game_averages_df: "team" or "player" flag
    avg_out,       \* get_game_averages_df: the returned stats_df (<<>> before the call)
    team_df,       \* NBAAnalyzer.team_df
    player_df,     \* NBAAnalyzer.player_df
    merged_data,   \* NBAAnalyzer.merged_data: <<>> (None), then <<the table>>
    merge_labelled,\* clean_and_merge_dfs: its local df after line 158 (the shift)
    merge_paired,  \* clean_and_merge_dfs: its local df after line 165 (the join)
    analyzed_games,\* the file at analyzed_games_path: its rows
    analyzer_pc,   \* what player_df holds: "new" (None), "loaded", "updated"
    dist_call,     \* update_player_df: <<>>, then <<its last call's game_ids
                   \* and what player_df held>>
    api_games,     \* the remote API: the games played so far
    player_dir,    \* the files of player_games_dir, by name
    team_dir,      \* the files of team_games_dir, by name
    team_games_dir,\* the path given as team_games_dir
    preexisting_games, \* the file at preexisting_games_path: its rows
    feed_op,       \* the data feed operation that ran last
    feed_result,   \* how it ended: "ok" or the error it raised
    feed_call,     \* update_player_games: its games_to_update and the ledger
                   \* it started from; get_all_team_games: the identifiers
                   \* its calls fetched
    team_loop,     \* get_all_team_games: the team of its next iteration
    box_loop,      \* update_player_games: the position in games_to_update
                   \* of its next box-score call (0 outside that loop)
    player_ids     \* get_all_player_games: the players still to refresh

avgVars   == <<avg_in, avg_kind, avg_out>>
mergeVars == <<team_df, merged_data, merge_labelled, merge_paired>>
distVars  == <<analyzed_games, analyzer_pc, dist_call>>
feedVars  == <<api_games, player_dir, team_dir, team_games_dir,
               preexisting_games, feed_op, feed_result, feed_call,
               team_loop, box_loop, player_ids>>
vars == <<avgVars, mergeVars, player_df, distVars, feedVars>>

----------------------------------------------------------------------------
(* Bounds *)
MaxRows == 3
MaxDate == 3
MaxGames == 3
MaxFeedGames == 3

----------------------------------------------------------------------------
(* Generic helpers *)

Range(s) == {s[i] : i \in 1..Len(s)}

RECURSIVE SumSeq(_)
SumSeq(s) == IF s = <<>> THEN 0 ELSE s[1] + SumSeq(Tail(s))

RECURSIVE GCD(_, _)
GCD(a, b) == IF b = 0 THEN a ELSE GCD(b, a % b)

Abs(x) == IF x < 0 THEN -x ELSE x

\* The value num/den of a float division, as a rational in lowest terms.
Frac(num, den) ==
    LET g == GCD(Abs(num), den)
    IN  <<num \div g, den \div g>>

\* Text order (Python's str comparison) of two digit strings.
RECURSIVE StrLess(_, _)
StrLess(a, b) ==
    IF b = <<>> THEN FALSE
    ELSE IF a = <<>> THEN TRUE
    ELSE IF a[1] # b[1] THEN a[1] < b[1]
    ELSE StrLess(Tail(a), Tail(b))

\* The decimal text of a natural number, as to_csv writes an integer cell.
RECURSIVE IntToText(_)
IntToText(n) ==
    IF n < 10 THEN <<n>> ELSE Append(IntToText(n \div 10), n % 10)

\* The integer a digit text parses to, as read_csv infers it: leading zeros
\* are lost.
RECURSIVE TextToInt(_)
TextToInt(t) ==
    IF t = <<>> THEN 0
    ELSE 10 * TextToInt(SubSeq(t, 1, Len(t) - 1)) + t[Len(t)]

\* A missing value (NaN) of a column: shifted columns hold <<>> or <<value>>,
\* and a missing text is the empty text.
NaN == <<>>

\* The parts of the state each operation leaves alone.
AvgIdle   == avg_in = <<>> /\ avg_kind = "team" /\ avg_out = <<>>
MergeIdle == /\ team_df = <<>> /\ merged_data = <<>>
             /\ merge_labelled = <<>> /\ merge_paired = <<>>
DistIdle  == analyzed_games = <<>> /\ analyzer_pc = "new" /\ dist_call = <<>>
FeedIdle  == /\ api_games = {} /\ player_dir = <<>> /\ team_dir = <<>>
             /\ team_games_dir = <<>>
             /\ preexisting_games = <<>> /\ feed_op = "none"
             /\ feed_result = "ok"
             /\ feed_call = [games_to_update |-> <<>>, ledger |-> <<>>,
                             fetched |-> {}]
             /\ team_loop = 0 /\ box_loop = 0 /\ player_ids = {}

----------------------------------------------------------------------------
(* NBAAnalyzer.get_game_averages_df *)

\* df["SEASON_ID"].str[-4:]
SEASON_YEAR(season_id) ==
    IF Len(season_id) <= 4 THEN season_id
    ELSE SubSeq(season_id, Len(season_id) - 3, Len(season_id))

\* lambda x: 1 if x=="W" else 0
WLToInt(x) == IF x = "W" THEN 1 ELSE 0

\* lambda x: 0 if '@' in x else 1
HOME_GAME(matchup) == IF "@" \in Range(matchup) THEN 0 ELSE 1

\* The derived columns of lines 23-26, and the row's index label (its
\* position in the table read from the file).
Derive(df) ==
    [i \in 1..Len(df) |->
        [index       |-> i - 1,
         ID          |-> df[i].ID,
         GAME_ID     |-> df[i].GAME_ID,
         SEASON_YEAR |-> SEASON_YEAR(df[i].SEASON_ID),
         GAME_DATE   |-> df[i].GAME_DATE,
         HOME_GAME   |-> HOME_GAME(df[i].MATCHUP),
         WL          |-> WLToInt(df[i].WL),
         PTS         |-> df[i].PTS]]

\* df.sort_values("GAME_DATE"): insertion of each row after the rows that
\* are not later than it (rows of one date keep their order, as the sort
\* of a table of fewer than 17 rows does).
RECURSIVE InsertByDate(_, _)
InsertByDate(r, s) ==
    IF s = <<>> THEN <<r>>
    ELSE IF r.GAME_DATE < s[1].GAME_DATE THEN <<r>> \o s
    ELSE <<s[1]>> \o InsertByDate(r, Tail(s))

RECURSIVE sort_values(_)
sort_values(df) ==
    IF df = <<>> THEN <<>>
    ELSE InsertByDate(df[Len(df)], sort_values(SubSeq(df, 1, Len(df) - 1)))

\* df["GAME_DATE"].diff().dt.days.fillna(0)
REST_DAYS(df) ==
    [i \in 1..Len(df) |->
        IF i = 1 THEN 0 ELSE df[i].GAME_DATE - df[i - 1].GAME_DATE]

\* The stats columns of one row (stats_cols: WL, PTS, REST_DAYS).
StatsOf(df, i) ==
    [WL |-> df[i].WL, PTS |-> df[i].PTS, REST_DAYS |-> REST_DAYS(df)[i]]

\* df["SEASON_YEAR"].unique(): the values in order of first appearance.
RECURSIVE unique(_)
unique(s) ==
    IF s = <<>> THEN <<>>
    ELSE LET u == unique(SubSeq(s, 1, Len(s) - 1))
         IN  IF s[Len(s)] \in Range(u) THEN u ELSE Append(u, s[Len(s)])

\* df[df["SEASON_YEAR"]==season][stats_cols]
season_games(df, season) ==
    LET Pos == SelectSeq([i \in 1..Len(df) |-> i],
                         LAMBDA i : df[i].SEASON_YEAR = season)
    IN  [k \in 1..Len(Pos) |-> StatsOf(df, Pos[k])]

\* The loop of lines 43-50: the first row as it is, then the running sum
\* divided by games_played.
season_rows(games) ==
    [i \in 1..Len(games) |->
        LET cum(col) == SumSeq([k \in 1..i |-> games[k][col]])
        IN  [WL        |-> Frac(cum("WL"), i),
             PTS       |-> Frac(cum("PTS"), i),
             REST_DAYS |-> Frac(cum("REST_DAYS"), i)]]

\* rows += season_rows, over the seasons in unique() order.
RECURSIVE AllSeasonRows(_, _)
AllSeasonRows(df, seasons) ==
    IF seasons = <<>> THEN <<>>
    ELSE season_rows(season_games(df, seasons[1]))
            \o AllSeasonRows(df, Tail(seasons))

\* stats_df.index = df.index assigns the labels by position.
IndexLabelledPositional(df, rows) ==
    [k \in 1..Len(rows) |-> [index |-> df[k].index, avg |-> rows[k]]]

get_game_averages_df(df_in, kind) ==
    LET df       == sort_values(Derive(df_in))
        seasons  == unique([i \in 1..Len(df) |-> df[i].SEASON_YEAR])
        rows     == AllSeasonRows(df, seasons)
        stats_df == IndexLabelledPositional(df, rows)
        \* pd.merge(df, stats_df, on="index"): the labels are unique
        avgOf(i) == (CHOOSE s \in Range(stats_df) : s.index = df[i].index).avg
    IN  [i \in 1..Len(df) |->
            [kind                 |-> kind,
             ID                   |-> df[i].ID,
             GAME_ID              |-> df[i].GAME_ID,
             HOME_GAME            |-> df[i].HOME_GAME,
             WL                   |-> df[i].WL,
             PTS                  |-> df[i].PTS,
             REST_DAYS            |-> REST_DAYS(df)[i],
             SEASON_AVG_WL        |-> avgOf(i).WL,
             SEASON_AVG_PTS       |-> avgOf(i).PTS,
             SEASON_AVG_REST_DAYS |-> avgOf(i).REST_DAYS]]

----------------------------------------------------------------------------
(* Inputs of get_game_averages_df: the table of one entity as read from its *)
(* file; an entity plays at most one game on a date, and each row is       *)
(* another game.                                                           *)

SeasonIds == {<<2, 2, 0, 1, 9>>, <<4, 2, 0, 1, 9>>, <<2, 2, 0, 2, 0>>}
Matchups  == {<<"ATL", "@", "BOS">>, <<"ATL", "vs.", "BOS">>}
AvgGameId(i) == <<0, i>>

AvgTables(rows, dates) ==
    UNION {
        {t \in [1..n -> [ID : {7}, GAME_ID : {<<0, 0>>}, SEASON_ID : SeasonIds,
                         GAME_DATE : 1..dates, MATCHUP : Matchups,
                         WL : {"W", "L"}, PTS : {1, 3}]] :
            \A i, j \in 1..n : i # j => t[i].GAME_DATE # t[j].GAME_DATE}
        : n \in 1..rows}

InitAvg ==
    /\ avg_in \in {[i \in 1..Len(t) |-> [t[i] EXCEPT !.GAME_ID = AvgGameId(i)]]
                    : t \in AvgTables(MaxRows, MaxDate)}
    /\ avg_kind \in {"team", "player"}
    /\ avg_out = <<>>
    /\ MergeIdle
    /\ DistIdle
    /\ FeedIdle
    /\ player_df = <<>>

GetGameAveragesDf ==
    /\ avg_out = <<>>
    /\ avg_out' = get_game_averages_df(avg_in, avg_kind)
    /\ UNCHANGED <<avg_in, avg_kind, mergeVars, player_df, distVars, feedVars>>

NextAvg == GetGameAveragesDf

SpecAvg == InitAvg /\ [][NextAvg]_vars

----------------------------------------------------------------------------
(* Claims about get_game_averages_df *)

\* The sum of f[x] over the x of S.
RECURSIVE SumOver(_, _)
SumOver(S, f) ==
    IF S = {} THEN 0
    ELSE LET x == CHOOSE y \in S : TRUE
         IN  f[x] + SumOver(S \ {x}, f)

\* The rows of the same season as r that are not later than r.
SeasonSoFar(t, r) ==
    {q \in Range(t) : /\ SEASON_YEAR(q.SEASON_ID) = SEASON_YEAR(r.SEASON_ID)
                      /\ q.GAME_DATE <= r.GAME_DATE}

\* Calendar days since the previous game of the whole table, 0 for the first.
RestDaysOf(t, r) ==
    LET earlier == {q.GAME_DATE : q \in {x \in Range(t) : x.GAME_DATE < r.GAME_DATE}}
    IN  IF earlier = {} THEN 0
        ELSE r.GAME_DATE - (CHOOSE d \in earlier : \A e \in earlier : e <= d)

\* frac = (sum of f over S) / |S|
IsMeanOf(frac, S, f) == frac[1] * Cardinality(S) = frac[2] * SumOver(S, f)

\* C1: every output row keeps the identifiers and raw statistics of one input
\* row, and its SEASON_AVG_ statistics are the mean of the raw statistics of
\* that row and of the earlier rows of the same season, and of no other row.
C1_SeasonAverageIsMeanOfSeasonSoFar ==
    avg_out # <<>> =>
        /\ Len(avg_out) = Len(avg_in)
        /\ \A r \in Range(avg_in) :
              \E i \in 1..Len(avg_out) :
                LET o == avg_out[i]
                    S == SeasonSoFar(avg_in, r)
                    pts == [q \in S |-> q.PTS]
                    wl == [q \in S |-> WLToInt(q.WL)]
                    rest == [q \in S |-> RestDaysOf(avg_in, q)]
                IN  /\ o.GAME_ID = r.GAME_ID
                    /\ o.PTS = r.PTS
                    /\ o.WL = WLToInt(r.WL)
                    /\ IsMeanOf(o.SEASON_AVG_PTS, S, pts)
                    /\ IsMeanOf(o.SEASON_AVG_WL, S, wl)
                    /\ IsMeanOf(o.SEASON_AVG_REST_DAYS, S, rest)

\* The seasons of the table are contiguous in date order (no game of
\* another season lies between two games of a season).
SeasonsContiguous(t) ==
    \A a, b, c \in Range(t) :
        (a.GAME_DATE < b.GAME_DATE /\ b.GAME_DATE < c.GAME_DATE
            /\ SEASON_YEAR(a.SEASON_ID) = SEASON_YEAR(c.SEASON_ID))
        => SEASON_YEAR(b.SEASON_ID) = SEASON_YEAR(a.SEASON_ID)

\* On such tables the averages are the means of the season so far.
C1_HoldsForContiguousSeasons ==
    SeasonsContiguous(avg_in) => C1_SeasonAverageIsMeanOfSeasonSoFar

----------------------------------------------------------------------------
(* NBAAnalyzer.clean_and_merge_dfs *)

\* self.team_df.groupby('GAME_ID')['GAME_ID'].transform('count') == 2
game_id_counts(df) ==
    [i \in 1..Len(df) |->
        Cardinality({j \in 1..Len(df) : df[j].GAME_ID = df[i].GAME_ID})]

FilterTwoSides(df) ==
    LET Pos == SelectSeq([i \in 1..Len(df) |-> i],
                         LAMBDA i : game_id_counts(df)[i] = 2)
    IN  [k \in 1..Len(Pos) |-> df[Pos[k]]]

\* pd.merge(df, self.player_df, on=["GAME_ID", "HOME_GAME", "WL"]): an inner
\* join, in the order of the left rows; each left row once per matching row.
RECURSIVE MergeWithPlayers(_, _)
MergeWithPlayers(df, players) ==
    IF df = <<>> THEN <<>>
    ELSE LET l == df[1]
             matches == SelectSeq(players,
                            LAMBDA r : /\ r.GAME_ID = l.GAME_ID
                                       /\ r.HOME_GAME = l.HOME_GAME
                                       /\ r.WL = l.WL)
         IN  [k \in 1..Len(matches) |-> l] \o MergeWithPlayers(Tail(df), players)

\* The order of df.sort_values(by=["TEAM_ID","GAME_ID"]): text order of the
\* team identifier, then text order of the game identifier.
SortKeyLess(r, s) ==
    \/ StrLess(r.TEAM_ID, s.TEAM_ID)
    \/ r.TEAM_ID = s.TEAM_ID /\ StrLess(r.GAME_ID, s.GAME_ID)

RECURSIVE InsertByTeamAndGame(_, _)
InsertByTeamAndGame(r, s) ==
    IF s = <<>> THEN <<r>>
    ELSE IF SortKeyLess(r, s[1]) THEN <<r>> \o s
    ELSE <<s[1]>> \o InsertByTeamAndGame(r, Tail(s))

RECURSIVE SortByTeamAndGame(_)
SortByTeamAndGame(df) ==
    IF df = <<>> THEN <<>>
    ELSE InsertByTeamAndGame(df[Len(df)],
                             SortByTeamAndGame(SubSeq(df, 1, Len(df) - 1)))

\* df.groupby("TEAM_ID")[["GAME_ID", "HOME_GAME", "WL"]].shift(-1): the next
\* row of the same team in the table's order, NaN for the team's last row.
ShiftWithinTeam(df) ==
    [i \in 1..Len(df) |->
        LET later == {j \in (i + 1)..Len(df) : df[j].TEAM_ID = df[i].TEAM_ID}
        IN  IF later = {}
            THEN [TEAM_ID |-> df[i].TEAM_ID, GAME_ID |-> df[i].GAME_ID,
                  HOME_GAME |-> df[i].HOME_GAME, WL |-> df[i].WL,
                  GAME_ID_JOIN |-> NaN, HOME_GAME_CURR |-> NaN, WL_PRED |-> NaN]
            ELSE LET n == CHOOSE j \in later : \A k \in later : j <= k
                 IN  [TEAM_ID |-> df[i].TEAM_ID, GAME_ID |-> df[i].GAME_ID,
                      HOME_GAME |-> df[i].HOME_GAME, WL |-> df[i].WL,
                      GAME_ID_JOIN |-> df[n].GAME_ID,
                      HOME_GAME_CURR |-> <<df[n].HOME_GAME>>,
                      WL_PRED |-> <<df[n].WL>>]]

\* pd.merge(home_df, away_df, on="GAME_ID_JOIN", suffixes=("_HOME", "_AWAY")):
\* an inner join in the order of the home rows; pandas matches a missing key
\* with a missing key.
RECURSIVE MergeHomeAway(_, _)
MergeHomeAway(home_df, away_df) ==
    IF home_df = <<>> THEN <<>>
    ELSE LET h == home_df[1]
             matches == SelectSeq(away_df,
                            LAMBDA a : a.GAME_ID_JOIN = h.GAME_ID_JOIN)
         IN  [k \in 1..Len(matches) |->
                [GAME_ID_JOIN        |-> h.GAME_ID_JOIN,
                 TEAM_ID_HOME        |-> h.TEAM_ID,
                 GAME_ID_HOME        |-> h.GAME_ID,
                 HOME_GAME_HOME      |-> h.HOME_GAME,
                 WL_HOME             |-> h.WL,
                 HOME_GAME_CURR_HOME |-> h.HOME_GAME_CURR,
                 WL_PRED_HOME        |-> h.WL_PRED,
                 TEAM_ID_AWAY        |-> matches[k].TEAM_ID,
                 GAME_ID_AWAY        |-> matches[k].GAME_ID,
                 HOME_GAME_AWAY      |-> matches[k].HOME_GAME,
                 WL_AWAY             |-> matches[k].WL,
                 HOME_GAME_CURR_AWAY |-> matches[k].HOME_GAME_CURR,
                 WL_PRED_AWAY        |-> matches[k].WL_PRED]]
             \o MergeHomeAway(Tail(home_df), away_df)

\* df.drop(columns=drop): the TEAM_ID*, GAME_ID* and WL_PRED_AWAY columns go.
DropColumns(df) ==
    [i \in 1..Len(df) |->
        [HOME_GAME_HOME      |-> df[i].HOME_GAME_HOME,
         WL_HOME             |-> df[i].WL_HOME,
         HOME_GAME_CURR_HOME |-> df[i].HOME_GAME_CURR_HOME,
         WL_PRED_HOME        |-> df[i].WL_PRED_HOME,
         HOME_GAME_AWAY      |-> df[i].HOME_GAME_AWAY,
         WL_AWAY             |-> df[i].WL_AWAY,
         HOME_GAME_CURR_AWAY |-> df[i].HOME_GAME_CURR_AWAY]]

\* The local df after line 158.
LabelledRows(teams, players) ==
    ShiftWithinTeam(
        SortByTeamAndGame(MergeWithPlayers(FilterTwoSides(teams), players)))

\* The local df after line 165.
PairedRows(labelled) ==
    MergeHomeAway(SelectSeq(labelled, LAMBDA r : r.HOME_GAME = 1),
                  SelectSeq(labelled, LAMBDA r : r.HOME_GAME = 0))

clean_and_merge_dfs ==
    /\ merged_data = <<>>
    /\ merge_labelled' = LabelledRows(team_df, player_df)
    /\ merge_paired' = PairedRows(merge_labelled')
    /\ merged_data' = <<DropColumns(merge_paired')>>
    /\ UNCHANGED <<team_df, player_df, avgVars, distVars, feedVars>>

----------------------------------------------------------------------------
(* Inputs of clean_and_merge_dfs.  A game identifier is the text 0<t><s>:   *)
(* t the season type (2 regular season, 4 playoffs), s the season; a       *)
(* season's playoffs follow its regular season and precede the next        *)
(* season.  team_df has a row per side of each game, less the rows dropped *)
(* for missing values; player_df has the ledger's row per side.            *)

MergeGameIds == << <<0, 2, 1>>, <<0, 4, 1>>, <<0, 2, 2>>, <<0, 4, 2>> >>
MergeTeams   == {<<7>>, <<8>>, <<9>>}

Schedules(games) ==
    UNION {[S -> {g \in [home : MergeTeams, away : MergeTeams, homeWon : {0, 1}]
                    : g.home # g.away}]
             : S \in (SUBSET (1..games)) \ {{}}}

\* The two rows of a game: the home side, then the away side.
SidesOf(sched, k) ==
    << [TEAM_ID |-> sched[k].home, GAME_ID |-> MergeGameIds[k],
        HOME_GAME |-> 1, WL |-> sched[k].homeWon],
       [TEAM_ID |-> sched[k].away, GAME_ID |-> MergeGameIds[k],
        HOME_GAME |-> 0, WL |-> 1 - sched[k].homeWon] >>

RECURSIVE AllSides(_, _)
AllSides(sched, k) ==
    IF k = 0 THEN <<>>
    ELSE AllSides(sched, k - 1)
            \o (IF k \in DOMAIN sched THEN SidesOf(sched, k) ELSE <<>>)

\* The table less its m-th row (the whole table for m = 0).
Without(t, m) ==
    [i \in 1..(Len(t) - (IF m \in 1..Len(t) THEN 1 ELSE 0)) |->
        IF m = 0 \/ i < m THEN t[i] ELSE t[i + 1]]

LedgerRowOf(r) == [GAME_ID |-> r.GAME_ID, HOME_GAME |-> r.HOME_GAME, WL |-> r.WL]

InitMerge ==
    /\ \E sched \in Schedules(MaxGames) :
         LET all == AllSides(sched, MaxGames)
         IN  /\ \E m \in 0..Len(all) : team_df = Without(all, m)
             /\ \E m \in 0..Len(all) :
                    player_df = Without([i \in 1..Len(all) |-> LedgerRowOf(all[i])], m)
    /\ merged_data = <<>>
    /\ merge_labelled = <<>>
    /\ merge_paired = <<>>
    /\ AvgIdle
    /\ DistIdle
    /\ FeedIdle

NextMerge == clean_and_merge_dfs

SpecMerge == InitMerge /\ [][NextMerge]_vars

----------------------------------------------------------------------------
(* Claims about clean_and_merge_dfs *)

MergeDone == merged_data # <<>>

\* The day a game was played, from its identifier <<0, type, season>>: by
\* season, and within a season the regular season before the playoffs.
GameDay(game_id) == 10 * game_id[3] + game_id[2]

\* The rows of the labelled table of r's team that were played after r's game.
LaterGamesOf(r) ==
    {q \in Range(merge_labelled) :
        q.TEAM_ID = r.TEAM_ID /\ GameDay(q.GAME_ID) > GameDay(r.GAME_ID)}

\* C2: WL_PRED of a team row is that team's win/loss in its chronologically
\* next game among its retained rows, and is undefined for the team's last
\* game.
C2_LabelIsChronologicallyNextGame ==
    MergeDone =>
        \A r \in Range(merge_labelled) :
            LET later == LaterGamesOf(r)
            IN  IF later = {} THEN r.WL_PRED = NaN
                ELSE \E q \in later :
                        /\ \A x \in later : GameDay(q.GAME_ID) <= GameDay(x.GAME_ID)
                        /\ r.WL_PRED = <<q.WL>>

\* The label is the team's win/loss in its next game in the text order of
\* the game identifiers.
C2_LabelIsNextGameIdOfTeam ==
    MergeDone =>
        \A r \in Range(merge_labelled) :
            LET later == {q \in Range(merge_labelled) :
                            q.TEAM_ID = r.TEAM_ID /\ StrLess(r.GAME_ID, q.GAME_ID)}
            IN  IF later = {} THEN r.WL_PRED = NaN
                ELSE \E q \in later :
                        /\ \A x \in later : ~StrLess(x.GAME_ID, q.GAME_ID)
                        /\ r.WL_PRED = <<q.WL>>

\* C3: every merged row combines the home-side row and the away-side row of
\* one and the same game, and is built from no row whose next-game
\* identifier is undefined.
C3_MergedRowIsOneGame ==
    MergeDone =>
        \A i \in 1..Len(merge_paired) :
            LET m == merge_paired[i]
            IN  /\ m.HOME_GAME_HOME = 1
                /\ m.HOME_GAME_AWAY = 0
                /\ m.GAME_ID_HOME = m.GAME_ID_AWAY
                /\ m.GAME_ID_JOIN # NaN

----------------------------------------------------------------------------
(* Files and the remote API.  A directory maps the name of each file to    *)
(* the file, a file is the sequence of its rows, a row maps each column to *)
(* the cell's text.  A DataFrame cell is <<"str", c1, .., cn>> (the text   *)
(* c1..cn) or <<"int", n>>.  Of the columns of the API's tables, the       *)
(* entity identifier, GAME_ID, SEASON_ID, GAME_DATE, MATCHUP, WL and PTS   *)
(* are kept; GAME_DATE is the text of the day ordinal.                     *)

StrCell(text) == <<"str">> \o text
IntCell(n)    == <<"int", n>>

\* The columns whose cells are no numbers: read_csv infers object for them.
TextCols == {"GAME_DATE", "MATCHUP", "WL"}

\* pd.read_csv(path, dtype={c: str for c in str_cols}): a column named in
\* dtype keeps its text, any other column of digit cells is inferred int64.
read_csv(file, str_cols) ==
    [i \in 1..Len(file) |->
        [c \in DOMAIN file[i] |->
            IF c \in str_cols \cup TextCols THEN StrCell(file[i][c])
            ELSE IntCell(TextToInt(file[i][c]))]]

\* df.to_csv(path, index=False)
to_csv(df) ==
    [i \in 1..Len(df) |->
        [c \in DOMAIN df[i] |->
            IF df[i][c][1] = "str" THEN Tail(df[i][c])
            ELSE IntToText(df[i][c][2])]]

\* drop_duplicates(): the first of each run of equal rows is kept.
drop_duplicates(df) == unique(df)

\* The orders in which os.listdir may list a directory, and a Python set
\* may be iterated.
Orders(S) ==
    {o \in [1..Cardinality(S) -> S] : \A x \in S : \E i \in DOMAIN o : o[i] = x}

\* The remote API: teams.get_teams(), and the games in the order they are
\* played; game k has the identifier 0k and is played on day k of season
\* 22019; team 7 hosts team 9 in the odd games and team 8 in the even ones,
\* and the home side wins the odd games.
FeedTeams == <<7, 8, 9>>
FeedGameId(k) == <<0, k>>
TeamsOf(k) == IF k % 2 = 1 THEN {7, 9} ELSE {7, 8}
HomeWon(k) == k % 2 = 1
\* The box score of every game lists players 1, 2 and 3; a player of an odd
\* identifier plays for the home side; players 1 and 2 have a game-log row
\* for every game, the rows of player 3 have missing values (dropna leaves
\* none).
FeedPlayers == {1, 2, 3}
BoxScore(k) == FeedPlayers
OnHomeSide(p) == p % 2 = 1
Logged(p, k) == p # 3

GamesInOrder(S) == SelectSeq([k \in 1..MaxFeedGames |-> k], LAMBDA k : k \in S)

\* The columns of a game's row that the two kinds of table share.
GameCols(k, home, pts) ==
    [GAME_ID   |-> StrCell(FeedGameId(k)),
     SEASON_ID |-> StrCell(<<2, 2, 0, 1, 9>>),
     GAME_DATE |-> StrCell(<<k>>),
     MATCHUP   |-> StrCell(IF home THEN <<"ATL", "vs.", "BOS">>
                           ELSE <<"BOS", "@", "ATL">>),
     WL        |-> StrCell(<<IF home = HomeWon(k) THEN "W" ELSE "L">>),
     PTS       |-> IntCell(pts)]

\* get_team_games(team_id) when the API knows the games of the set games.
TeamGames(team_id, games) ==
    LET gs == GamesInOrder({k \in games : team_id \in TeamsOf(k)})
    IN  [i \in 1..Len(gs) |->
            LET c == GameCols(gs[i], team_id = 7, team_id + gs[i])
            IN  [TEAM_ID |-> IntCell(team_id), GAME_ID |-> c.GAME_ID,
                 SEASON_ID |-> c.SEASON_ID, GAME_DATE |-> c.GAME_DATE,
                 MATCHUP |-> c.MATCHUP, WL |-> c.WL, PTS |-> c.PTS]]

get_team_games(team_id) == TeamGames(team_id, api_games)

\* get_player_games(player_id)
get_player_games(player_id) ==
    LET gs == GamesInOrder({k \in api_games : Logged(player_id, k)})
    IN  [i \in 1..Len(gs) |->
            LET c == GameCols(gs[i], OnHomeSide(player_id), player_id + gs[i])
            IN  [PLAYER_ID |-> IntCell(player_id), GAME_ID |-> c.GAME_ID,
                 SEASON_ID |-> c.SEASON_ID, GAME_DATE |-> c.GAME_DATE,
                 MATCHUP |-> c.MATCHUP, WL |-> c.WL, PTS |-> c.PTS]]

\* get_player_ids_by_game(game_id), for the text of a game's identifier.
get_player_ids_by_game(game_id) ==
    BoxScore(CHOOSE k \in 1..MaxFeedGames : StrCell(FeedGameId(k)) = game_id)

Put(dir, name, file) ==
    [n \in (DOMAIN dir) \cup {name} |-> IF n = name THEN file ELSE dir[n]]

\* Lines 57-62 and 173-177: concat with the stored table when there is one,
\* drop the duplicates, save.
MergeAndSave(dir, name, df) ==
    LET merged == IF name \in DOMAIN dir
                  THEN drop_duplicates(read_csv(dir[name], {}) \o df)
                  ELSE df
    IN  Put(dir, name, to_csv(merged))

\* One iteration of get_all_player_games: a player without rows is skipped.
StorePlayer(dir, player_id, df) ==
    IF Len(df) = 0 THEN dir ELSE MergeAndSave(dir, player_id, df)

\* The team tables of the games 1..s, as files.
SeededTeamDir(s) ==
    [t \in {x \in Range(FeedTeams) : TeamGames(x, 1..s) # <<>>} |->
        to_csv(TeamGames(t, 1..s))]

\* The remote API learns of the next game.
GamePlayed ==
    /\ Cardinality(api_games) < MaxFeedGames
    /\ api_games' = api_games \cup {Cardinality(api_games) + 1}
    /\ UNCHANGED <<player_dir, team_dir, team_games_dir, preexisting_games,
                   feed_op, feed_result, feed_call, team_loop, box_loop,
                   player_ids, avgVars, mergeVars, player_df, distVars>>

----------------------------------------------------------------------------
(* NBAAnalyzer.load_and_get_averages and update_player_df *)

\* pd.read_csv(f"{dir}/{i}", dtype={"GAME_ID": str, "SEASON_ID": str,
\* f"{id_prefix}_ID": str}), as the table get_game_averages_df is given.
ReadEntityFile(file, id_col) ==
    LET df == read_csv(file, {"GAME_ID", "SEASON_ID", id_col})
    IN  [i \in 1..Len(df) |->
            [ID        |-> Tail(df[i][id_col]),
             GAME_ID   |-> Tail(df[i].GAME_ID),
             SEASON_ID |-> Tail(df[i].SEASON_ID),
             GAME_DATE |-> df[i].GAME_DATE[2],
             MATCHUP   |-> Tail(df[i].MATCHUP),
             WL        |-> df[i].WL[2],
             PTS       |-> df[i].PTS[2]]]

\* pd.concat(dfs) of get_game_averages_df of each file, in os.listdir order.
RECURSIVE ConcatAverages(_, _, _, _)
ConcatAverages(dir, order, id_col, kind) ==
    IF order = <<>> THEN <<>>
    ELSE get_game_averages_df(ReadEntityFile(dir[order[1]], id_col), kind)
            \o ConcatAverages(dir, Tail(order), id_col, kind)

\* load_and_get_averages(team=True) and load_and_get_averages(player=True);
\* pd.concat raises on a directory without file.
load_and_get_averages ==
    \/ /\ DOMAIN team_dir # {}
       /\ \E order \in Orders(DOMAIN team_dir) :
             team_df' = ConcatAverages(team_dir, order, "TEAM_ID", "team")
       /\ UNCHANGED <<player_df, distVars, merged_data, merge_labelled,
                      merge_paired, avgVars, feedVars>>
    \/ /\ DOMAIN player_dir # {}
       /\ \E order \in Orders(DOMAIN player_dir) :
             player_df' = ConcatAverages(player_dir, order, "PLAYER_ID", "player")
       /\ analyzer_pc' = "loaded"
       /\ UNCHANGED <<analyzed_games, dist_call, avgVars, mergeVars, feedVars>>

\* The values of a column in increasing order.
RECURSIVE InsertSorted(_, _)
InsertSorted(x, s) ==
    IF s = <<>> THEN <<x>>
    ELSE IF x < s[1] THEN <<x>> \o s
    ELSE <<s[1]>> \o InsertSorted(x, Tail(s))

RECURSIVE SortedValues(_)
SortedValues(s) ==
    IF s = <<>> THEN <<>> ELSE InsertSorted(s[1], SortedValues(Tail(s)))

\* Series.quantile(k/4): linear interpolation between the two order
\* statistics around position (n-1)*k/4.
quantile(vals, k) ==
    LET v   == SortedValues(vals)
        pos == (Len(v) - 1) * k
        lo  == (pos \div 4) + 1
        rem == pos % 4
    IN  IF rem = 0 THEN Frac(v[lo], 1)
        ELSE Frac(4 * v[lo] + rem * (v[lo + 1] - v[lo]), 4)

\* team_df[dist_cols].drop_duplicates(): the identifying columns and the
\* distribution columns, which are the same on every row of the group; one
\* row per distinct (GAME_ID, HOME_GAME, WL) in order of first appearance.
DistRows(team_rows) ==
    LET vals == [i \in 1..Len(team_rows) |-> team_rows[i].PTS]
        v    == SortedValues(vals)
        keys == unique([i \in 1..Len(team_rows) |->
                    <<team_rows[i].GAME_ID, team_rows[i].HOME_GAME, team_rows[i].WL>>])
    IN  [k \in 1..Len(keys) |->
            [GAME_ID   |-> keys[k][1],
             HOME_GAME |-> keys[k][2],
             WL        |-> keys[k][3],
             PTS_mean  |-> Frac(SumSeq(vals), Len(vals)),
             PTS_min   |-> v[1],
             PTS_q25   |-> quantile(vals, 1),
             PTS_q50   |-> quantile(vals, 2),
             PTS_q75   |-> quantile(vals, 3),
             PTS_max   |-> v[Len(v)]]]

\* Lines 129-143 for one game: the home-side row, then the away-side row; an
\* empty side yields no row.
GameDistRows(players, game_id) ==
    LET game_df == SelectSeq(players, LAMBDA r : r.GAME_ID = game_id)
        df_home == SelectSeq(game_df, LAMBDA r : r.HOME_GAME = 1)
        df_away == SelectSeq(game_df, LAMBDA r : r.HOME_GAME = 0)
    IN  (IF df_home = <<>> THEN <<>> ELSE DistRows(df_home))
            \o (IF df_away = <<>> THEN <<>> ELSE DistRows(df_away))

RECURSIVE NewDistRows(_, _)
NewDistRows(players, order) ==
    IF order = <<>> THEN <<>>
    ELSE GameDistRows(players, order[1]) \o NewDistRows(players, Tail(order))

GameIdsOf(df) == {df[i].GAME_ID : i \in 1..Len(df)}

\* pd.read_csv(self.analyzed_games_path, dtype={"GAME_ID": str}): the
\* identifier stays the text of the file, the flags parse to integers (the
\* distribution columns are numbers, written and read back exactly).
ReadAnalyzedGames(file) ==
    [i \in 1..Len(file) |->
        [file[i] EXCEPT !.HOME_GAME = TextToInt(file[i].HOME_GAME),
                        !.WL = TextToInt(file[i].WL)]]

\* df.to_csv(self.analyzed_games_path, index=False)
AnalyzedToCsv(df) ==
    [i \in 1..Len(df) |->
        [df[i] EXCEPT !.HOME_GAME = IntToText(df[i].HOME_GAME),
                      !.WL = IntToText(df[i].WL)]]

\* A variant that analyzes every game of a freshly loaded player table.
games_to_analyze_all(players, analyzed_games_df) ==
    IF analyzer_pc = "loaded" THEN GameIdsOf(players) ELSE {}

\* set(self.player_df["GAME_ID"].unique()) - set(analyzed_games_df["GAME_ID"].unique())
games_to_analyze(players, analyzed_games_df) ==
    GameIdsOf(players) \ GameIdsOf(analyzed_games_df)

\* update_player_df: raises on player_df = None.
update_player_df ==
    /\ analyzer_pc # "new"
    /\ LET analyzed_games_df == ReadAnalyzedGames(analyzed_games)
           game_ids == games_to_analyze(player_df, analyzed_games_df)
       IN  /\ \E order \in Orders(game_ids) :
                 LET df == analyzed_games_df \o NewDistRows(player_df, order)
                 IN  /\ analyzed_games' = AnalyzedToCsv(df)
                     /\ player_df' = df
           /\ dist_call' = <<[game_ids |-> game_ids, held |-> analyzer_pc]>>
    /\ analyzer_pc' = "updated"
    /\ UNCHANGED <<avgVars, mergeVars, feedVars>>

\* NBADataFeed.get_all_player_games([player_id]): the data feed refreshes
\* the file of one player.
PlayerRefreshed ==
    \E p \in FeedPlayers :
        /\ player_dir' = StorePlayer(player_dir, p, get_player_games(p))
        /\ UNCHANGED <<api_games, team_dir, team_games_dir, preexisting_games,
                       feed_op, feed_result, feed_call, team_loop, box_loop,
                       player_ids, player_df, distVars, avgVars, mergeVars>>

\* The analyzer is constructed on the directories the data feed keeps,
\* after the first game: team_games_dir holds the tables of the game,
\* player_games_dir is empty, the ledger of analyzed games has its header
\* alone.
InitDist ==
    /\ api_games = 1..1
    /\ team_dir = SeededTeamDir(1)
    /\ team_games_dir = <<"teams", "/">>
    /\ player_dir = <<>>
    /\ preexisting_games = <<>>
    /\ feed_op = "none"
    /\ feed_result = "ok"
    /\ feed_call = [games_to_update |-> <<>>, ledger |-> <<>>, fetched |-> {}]
    /\ team_loop = 0
    /\ box_loop = 0
    /\ player_ids = {}
    /\ analyzed_games = <<>>
    /\ analyzer_pc = "new"
    /\ dist_call = <<>>
    /\ player_df = <<>>
    /\ AvgIdle
    /\ MergeIdle

NextDist ==
    \/ PlayerRefreshed
    \/ load_and_get_averages
    \/ update_player_df

SpecDist == InitDist /\ [][NextDist]_vars

----------------------------------------------------------------------------
(* Claims about update_player_df *)

IsPrefix(s, t) == Len(s) <= Len(t) /\ SubSeq(t, 1, Len(s)) = s

\* C7: an update with every game of the player table already in the ledger
\* leaves the ledger's rows as they are; in any run the rows of the games
\* already in the ledger stay as they are, and every row added is of a game
\* that was not in the ledger.
C7_AnalyzedGamesNeverRecomputed ==
    [][/\ IsPrefix(analyzed_games, analyzed_games')
       /\ \A i \in (Len(analyzed_games) + 1)..Len(analyzed_games') :
             analyzed_games'[i].GAME_ID \notin GameIdsOf(analyzed_games)
       /\ (GameIdsOf(player_df) \subseteq GameIdsOf(analyzed_games))
             => analyzed_games' = analyzed_games]_vars

\* An update of a freshly loaded player table found no new game, with games
\* in the ledger.
C7_Witness ==
    /\ dist_call # <<>>
    /\ dist_call[1].game_ids = {}
    /\ dist_call[1].held = "loaded"
    /\ analyzed_games # <<>>

\* C9: every game of the ledger has exactly one home-side row and one
\* away-side row.
C9_TwoRowsPerGame ==
    \A g \in GameIdsOf(analyzed_games) :
        \A side \in {0, 1} :
            Cardinality({i \in 1..Len(analyzed_games) :
                /\ analyzed_games[i].GAME_ID = g
                /\ analyzed_games[i].HOME_GAME = IntToText(side)}) = 1

----------------------------------------------------------------------------
(* NBADataFeed.  player_games_dir and team_games_dir are distinct          *)
(* directories.  The remote calls of an operation are made one after the   *)
(* other, and the API may learn of a game between two of them: an          *)
(* operation with a loop of remote calls takes one step per iteration, and *)
(* feed_result is "running" between the steps.                             *)

\* The team whose iteration of get_all_team_games runs next.
TeamAt ==
    IF feed_op = "get_all_team_games" /\ feed_result = "running"
    THEN team_loop ELSE 1

\* get_all_team_games(): one iteration of its loop (lines 53-62), the first
\* one starting the call.  The remote call fails, or df.iloc[0] raises
\* IndexError on an empty table, or the table is merged into the file
\* <TEAM_ID>.csv of player_games_dir (line 56).
get_all_team_games ==
    LET running == feed_op = "get_all_team_games" /\ feed_result = "running"
        df      == get_team_games(FeedTeams[TeamAt])
        fetched == IF running THEN feed_call.fetched ELSE {}
    IN  /\ running \/ feed_result # "running"
        /\ feed_op' = "get_all_team_games"
        /\ UNCHANGED <<api_games, team_dir, team_games_dir, preexisting_games,
                       box_loop, player_ids, avgVars, mergeVars, player_df,
                       distVars>>
        /\ \/ /\ feed_result' = "RemoteError"
              /\ team_loop' = 0
              /\ feed_call' = [feed_call EXCEPT !.fetched = fetched]
              /\ UNCHANGED player_dir
           \/ /\ df = <<>>
              /\ feed_result' = "IndexError"
              /\ team_loop' = 0
              /\ feed_call' = [feed_call EXCEPT !.fetched = fetched]
              /\ UNCHANGED player_dir
           \/ /\ df # <<>>
              /\ player_dir' = MergeAndSave(player_dir, df[1].TEAM_ID[2], df)
              /\ feed_call' = [feed_call EXCEPT !.fetched =
                                  fetched \cup {df[i].GAME_ID : i \in 1..Len(df)}]
              /\ IF TeamAt = Len(FeedTeams)
                 THEN feed_result' = "ok" /\ team_loop' = 0
                 ELSE feed_result' = "running" /\ team_loop' = TeamAt + 1

\* The GAME_ID columns of the files, in os.listdir order.
RECURSIVE ConcatGameIds(_, _)
ConcatGameIds(dir, order) ==
    IF order = <<>> THEN <<>>
    ELSE LET col == read_csv(dir[order[1]], {"GAME_ID"})
         IN  [i \in 1..Len(col) |-> col[i].GAME_ID]
                \o ConcatGameIds(dir, Tail(order))

\* The path ends with the separator.
EndsWithSep(path) == path # <<>> /\ path[Len(path)] = "/"

\* get_all_games(): pd.concat raises ValueError on a directory without
\* file; the files are opened at self.team_games_dir+i (line 76), which
\* names no file unless the path ends with the separator.
get_all_games(path, dir, order) ==
    IF DOMAIN dir = {} THEN [result |-> "ValueError", df |-> <<>>]
    ELSE IF ~EndsWithSep(path) THEN [result |-> "FileNotFoundError", df |-> <<>>]
    ELSE [result |-> "ok", df |-> drop_duplicates(ConcatGameIds(dir, order))]

\* The GAME_ID column of the ledger, read with dtype str.
PreexistingIds(ledger) ==
    LET df == read_csv(ledger, {"GAME_ID"})
    IN  [i \in 1..Len(df) |-> df[i].GAME_ID]

\* player_games_to_update(): all_games[~all_games.isin(preexisting_games["GAME_ID"])]
player_games_to_update(path, dir, order, ledger) ==
    LET all_games == get_all_games(path, dir, order)
    IN  [result |-> all_games.result,
         df     |-> SelectSeq(all_games.df,
                              LAMBDA g : g \notin Range(PreexistingIds(ledger)))]

\* A variant that writes the update alone.
update_preexisting_games_overwrite(ledger, update_df) ==
    to_csv([i \in 1..Len(update_df) |-> [GAME_ID |-> update_df[i]]])

\* update_preexisting_games(update_df): the new content of the ledger.
update_preexisting_games(ledger, update_df) ==
    to_csv(drop_duplicates(
        read_csv(ledger, {"GAME_ID"})
            \o [i \in 1..Len(update_df) |-> [GAME_ID |-> update_df[i]]]))

\* A variant that writes the ledger before the remote calls are made.
LedgerWrittenFirst(ledger, games_to_update) ==
    update_preexisting_games(ledger, games_to_update)

\* The ledger when a remote call of update_player_games fails: line 190 has
\* not run.
LedgerAfterFailure(ledger, games_to_update) == ledger

\* update_player_games(), line 182: the games to update.  get_all_games
\* raises; or no game is to be updated, no remote call is made, and the call
\* completes (lines 188-190); or the loop of box-score calls starts.
update_player_games ==
    /\ feed_result # "running"
    /\ feed_op' = "update_player_games"
    /\ player_ids' = {}
    /\ UNCHANGED <<api_games, team_dir, team_games_dir, player_dir, team_loop,
                   avgVars, mergeVars, player_df, distVars>>
    /\ \E order \in Orders(DOMAIN team_dir) :
          LET games_to_update == player_games_to_update(
                                    team_games_dir, team_dir, order, preexisting_games)
              ids == games_to_update.df
              call == [feed_call EXCEPT !.games_to_update = ids,
                                        !.ledger = preexisting_games]
          IN  \/ /\ games_to_update.result # "ok"
                 /\ feed_result' = games_to_update.result
                 /\ feed_call' = [call EXCEPT !.games_to_update = <<>>]
                 /\ box_loop' = 0
                 /\ UNCHANGED preexisting_games
              \/ /\ games_to_update.result = "ok"
                 /\ ids = <<>>
                 /\ feed_result' = "ok"
                 /\ feed_call' = call
                 /\ box_loop' = 0
                 /\ preexisting_games' = update_preexisting_games(preexisting_games, ids)
              \/ /\ games_to_update.result = "ok"
                 /\ ids # <<>>
                 /\ feed_result' = "running"
                 /\ feed_call' = call
                 /\ box_loop' = 1
                 /\ UNCHANGED preexisting_games

\* update_player_games(), lines 185-186: the iteration of the loop for the
\* next game to update.  The box-score call fails; or the players of the
\* game are added to player_ids, and after the last game the loop of
\* get_all_player_games starts (the call completes when there is no player
\* to refresh).
collect_player_ids ==
    /\ feed_op = "update_player_games"
    /\ feed_result = "running"
    /\ box_loop > 0
    /\ UNCHANGED <<api_games, team_dir, team_games_dir, player_dir, feed_op,
                   feed_call, team_loop, avgVars, mergeVars, player_df, distVars>>
    /\ \/ /\ feed_result' = "RemoteError"
          /\ box_loop' = 0
          /\ player_ids' = {}
          /\ preexisting_games' =
                LedgerAfterFailure(preexisting_games, feed_call.games_to_update)
       \/ LET players == player_ids \cup
                            get_player_ids_by_game(feed_call.games_to_update[box_loop])
              last == box_loop = Len(feed_call.games_to_update)
          IN  /\ player_ids' = players
              /\ box_loop' = IF last THEN 0 ELSE box_loop + 1
              /\ IF last /\ players = {}
                 THEN /\ feed_result' = "ok"
                      /\ preexisting_games' = update_preexisting_games(
                            preexisting_games, feed_call.games_to_update)
                 ELSE /\ feed_result' = "running"
                      /\ UNCHANGED preexisting_games

\* get_all_player_games(player_ids): the iteration of its loop for player
\* p (lines 168-177).  The game-log call fails; or the player's table is
\* stored, and after the last player the ledger is written (line 190).
get_all_player_games(p) ==
    /\ feed_op = "update_player_games"
    /\ feed_result = "running"
    /\ box_loop = 0
    /\ p \in player_ids
    /\ UNCHANGED <<api_games, team_dir, team_games_dir, feed_op, feed_call,
                   team_loop, box_loop, avgVars, mergeVars, player_df, distVars>>
    /\ \/ /\ feed_result' = "RemoteError"
          /\ player_ids' = {}
          /\ preexisting_games' =
                LedgerAfterFailure(preexisting_games, feed_call.games_to_update)
          /\ UNCHANGED player_dir
       \/ /\ player_dir' = StorePlayer(player_dir, p, get_player_games(p))
          /\ player_ids' = player_ids \ {p}
          /\ IF player_ids = {p}
             THEN /\ feed_result' = "ok"
                  /\ preexisting_games' = update_preexisting_games(
                        preexisting_games, feed_call.games_to_update)
             ELSE /\ feed_result' = "running"
                  /\ UNCHANGED preexisting_games

\* The store at the start: team_games_dir holds the tables of the first s
\* games, the ledger the first l of them, player_games_dir is empty; the
\* path of team_games_dir is given with or without the final separator.
InitFeed ==
    /\ \E s \in 0..MaxFeedGames :
          /\ team_dir = SeededTeamDir(s)
          /\ api_games = 1..s
          /\ \E l \in 0..s :
                preexisting_games = [i \in 1..l |-> [GAME_ID |-> FeedGameId(i)]]
    /\ team_games_dir \in {<<"teams">>, <<"teams", "/">>}
    /\ player_dir = <<>>
    /\ feed_op = "none"
    /\ feed_result = "ok"
    /\ feed_call = [games_to_update |-> <<>>, ledger |-> <<>>, fetched |-> {}]
    /\ team_loop = 0
    /\ box_loop = 0
    /\ player_ids = {}
    /\ player_df = <<>>
    /\ AvgIdle
    /\ MergeIdle
    /\ DistIdle

\* The calls of get_all_team_games, the API learning of games meanwhile.
NextTeamGames ==
    \/ GamePlayed
    \/ get_all_team_games

SpecTeamGames == InitFeed /\ [][NextTeamGames]_vars

\* The calls of update_player_games, the API learning of games meanwhile.
NextPlayerGames ==
    \/ GamePlayed
    \/ update_player_games
    \/ collect_player_ids
    \/ \E p \in FeedPlayers : get_all_player_games(p)

SpecPlayerGames == InitFeed /\ [][NextPlayerGames]_vars

----------------------------------------------------------------------------
(* Claims about the data feed *)

\* The game identifiers of the files of team_games_dir, and of the ledger,
\* as the texts the files hold.
KnownIdTexts ==
    UNION {{team_dir[n][i].GAME_ID : i \in 1..Len(team_dir[n])} : n \in DOMAIN team_dir}

LedgerIdTexts == {preexisting_games[i].GAME_ID : i \in 1..Len(preexisting_games)}

TextsOf(cells) == {Tail(cells[i]) : i \in 1..Len(cells)}

TeamRefreshCompleted == feed_op = "get_all_team_games" /\ feed_result = "ok"

\* C4: after get_all_team_games completes, every game identifier a team's
\* fetch returned is among the identifiers get_all_games returns (the path
\* of team_games_dir being one get_all_games can open files under).
C4_FetchedGamesAreKnown ==
    (TeamRefreshCompleted /\ EndsWithSep(team_games_dir)) =>
        \A order \in Orders(DOMAIN team_dir) :
            LET all_games == get_all_games(team_games_dir, team_dir, order)
            IN  /\ all_games.result = "ok"
                /\ feed_call.fetched \subseteq Range(all_games.df)

\* The rows the API returns for the entity a file of player_games_dir is
\* named after, as to_csv writes them.
FreshRows(name) ==
    IF name \in Range(FeedTeams) THEN to_csv(get_team_games(name))
    ELSE to_csv(get_player_games(name))

\* C5: a refresh of an entity that merges fetched rows the stored table
\* already holds leaves the stored table with the same rows.
C5_RefreshTwiceSameRows ==
    [][feed_result' \in {"ok", "running"} =>
        \A n \in DOMAIN player_dir :
          (/\ n \in DOMAIN player_dir'
           /\ Range(FreshRows(n)) \subseteq Range(player_dir[n]))
          => Range(player_dir'[n]) = Range(player_dir[n])]_vars

\* C6: player_games_to_update returns exactly the known game identifiers
\* that are not in the ledger; after update_player_games completes, each of
\* them is in the ledger, every identifier the ledger held is still in it,
\* and player_games_to_update returns none.
C6_LedgerCoversUpdatedGames ==
    \A order \in Orders(DOMAIN team_dir) :
        LET now == player_games_to_update(
                        team_games_dir, team_dir, order, preexisting_games)
        IN  /\ now.result = "ok" =>
                  /\ TextsOf(now.df) = KnownIdTexts \ LedgerIdTexts
                  /\ Len(now.df) = Cardinality(TextsOf(now.df))
            /\ (feed_op = "update_player_games" /\ feed_result = "ok") =>
                  /\ TextsOf(feed_call.games_to_update) \subseteq LedgerIdTexts
                  /\ {feed_call.ledger[i].GAME_ID : i \in 1..Len(feed_call.ledger)}
                        \subseteq LedgerIdTexts
                  /\ now.result = "ok" /\ now.df = <<>>

\* An update completed that had games to process and a ledger with games.
C6_Witness ==
    /\ feed_op = "update_player_games"
    /\ feed_result = "ok"
    /\ feed_call.games_to_update # <<>>
    /\ feed_call.ledger # <<>>

\* C8: an entity whose fetch returns no row is a no-op of the refresh: its
\* iteration raises no error, writes no table, and the refresh goes on.
C8_EmptyFetchIsNoOp ==
    [][/\ (/\ get_all_team_games
           /\ get_team_games(FeedTeams[TeamAt]) = <<>>
           /\ feed_result' # "RemoteError")
          => (feed_result' \in {"ok", "running"} /\ player_dir' = player_dir)
       /\ \A p \in FeedPlayers :
            (/\ get_all_player_games(p)
             /\ get_player_games(p) = <<>>
             /\ feed_result' # "RemoteError")
            => (feed_result' \in {"ok", "running"} /\ player_dir' = player_dir)]_vars

\* The player half of the no-op: a player without rows is skipped.
EmptyPlayerFetchIsSkipped ==
    [][\A p \in FeedPlayers :
        (/\ get_all_player_games(p)
         /\ get_player_games(p) = <<>>
         /\ feed_result' # "RemoteError")
        => (feed_result' \in {"ok", "running"} /\ player_dir' = player_dir)]_vars

\* C10: when a remote call fails during update_player_games the ledger is
\* left as it was, and every game that needed a player update is still
\* reported by player_games_to_update.
C10_FailureLeavesLedger ==
    (feed_op = "update_player_games" /\ feed_result = "RemoteError") =>
        /\ preexisting_games = feed_call.ledger
        /\ \A order \in Orders(DOMAIN team_dir) :
              LET now == player_games_to_update(
                            team_games_dir, team_dir, order, preexisting_games)
              IN  /\ now.result = "ok"
                  /\ Range(feed_call.games_to_update) \subseteq Range(now.df)

\* A game-log call failed after a player's table was stored.
C10_Witness ==
    /\ feed_op = "update_player_games"
    /\ feed_result = "RemoteError"
    /\ feed_call.games_to_update # <<>>
    /\ DOMAIN player_dir # {}

====
